---- MODULE Spec2Model ----
(***************************************************************************)
(* Fork cheatcodes of the EVM test executor                                *)
(* (crates/evm/src/executor/inspector/cheatcodes/fork.rs).                 *)
(*                                                                         *)
(* The dispatcher `apply` and its helpers are modelled from fork.rs.  The  *)
(* multi-fork backend behind `data.db` (DatabaseExt) and the rpc endpoint  *)
(* configuration behind `state.config` live in other files of the crate;   *)
(* they are modelled from the specification (sections 3, 4 and 7).         *)
(***************************************************************************)
EXTENDS Integers, Sequences, FiniteSets, TLC

\* ------------------------------------------------------------------ bounds
MaxForks == 2        \* fork creations the backend accepts in one session
MaxBlock == 2        \* height of the chain tip behind every endpoint

\* ------------------------------------------------------------------ options
None == << >>
Some(x) == << x >>
IsSome(o) == o # << >>
Unwrap(o) == o[1]

\* ------------------------------------------------------------------ U256
\* A 256-bit word is sixteen 16-bit limbs, least significant first; a u64
\* is the four low limbs.
LimbBase == 2 ^ 16
U256Limbs == 256 \div 16
U64Limbs == 64 \div 16

U256From(n) == [i \in 1..U256Limbs |-> IF i = 1 THEN n ELSE 0]
U64_MAX == [i \in 1..U64Limbs |-> LimbBase - 1]
U256FromU64(w) == [i \in 1..U256Limbs |-> IF i <= U64Limbs THEN w[i] ELSE 0]
U256_MAX == [i \in 1..U256Limbs |-> LimbBase - 1]
\* 2^64, the least value that does not fit a u64
U256_2_64 == [i \in 1..U256Limbs |-> IF i = U64Limbs + 1 THEN 1 ELSE 0]

RECURSIVE GtFrom(_, _, _)
GtFrom(a, b, i) ==
    IF i = 0 THEN FALSE
    ELSE IF a[i] # b[i] THEN a[i] > b[i]
    ELSE GtFrom(a, b, i - 1)
\* a > b on U256
U256Gt(a, b) == GtFrom(a, b, U256Limbs)

\* uint's fits_word: every limb above the low 64 bits is zero
FitsWord(a) == \A i \in (U64Limbs + 1)..U256Limbs : a[i] = 0
\* the low 64 bits
LowU64(a) == [i \in 1..U64Limbs |-> a[i]]
\* a u64 as a block height of the modelled chains; heights above the tip
\* are all "beyond the tip"
BlockOfU64(w) ==
    IF (\A i \in 2..U64Limbs : w[i] = 0) /\ w[1] <= MaxBlock
    THEN w[1] ELSE MaxBlock + 1

\* ------------------------------------------------------------------ chains
Addresses == {1, 2}
Urls == {"urlA", "urlB"}
UrlIx(u) == IF u = "urlA" THEN 1 ELSE 2

\* the value of address a at the end of block b on the chain behind url u
Remote(u, b, a) == 100 * UrlIx(u) + 10 * b + a

\* the historical transactions: both are in block TxBlock, transaction t at
\* index t - 1, writing address t
Txs == {1, 2}
TxBlock == MaxBlock
TxIndex(t) == t - 1
TxAddr(t) == t
TxVal(u, t) == Remote(u, TxBlock, TxAddr(t))

NoOverrides == [a \in Addresses |-> None]

\* the writes of the transactions that precede t in its block
ReplayOverrides(u, t) ==
    [a \in Addresses |->
        IF \E s \in Txs : TxIndex(s) < TxIndex(t) /\ TxAddr(s) = a
        THEN Some(TxVal(u, CHOOSE s \in Txs : TxIndex(s) < TxIndex(t) /\ TxAddr(s) = a))
        ELSE None]

\* ------------------------------------------------------------------ config
\* state.config.rpc_endpoints, keys in order; a url of None is an alias whose
\* resolution fails
DefaultEndpoints ==
    << [alias |-> "bad", url |-> None], [alias |-> "main", url |-> Some("urlA")] >>

Ok(v) == [ok |-> TRUE, err |-> "", val |-> v]
Err(e) == [ok |-> FALSE, err |-> e, val |-> << >>]

get_rpc_url(cfg, url_or_alias) ==
    IF \E i \in 1..Len(cfg) : cfg[i].alias = url_or_alias
    THEN LET i == CHOOSE i \in 1..Len(cfg) : cfg[i].alias = url_or_alias
         IN  IF IsSome(cfg[i].url) THEN Ok(Unwrap(cfg[i].url)) ELSE Err("ConfigError")
    ELSE IF url_or_alias \in Urls THEN Ok(url_or_alias)
    ELSE Err("ConfigError")

\* ------------------------------------------------------------------ backend
\* The state behind data.db: the Fork Registry, the forks with their
\* override layers, and the Persistent Account Set with its shared states.
\*   forks       id -> [url, caching, anchor, env, overrides]
\*   next_id     the next ForkId to hand out
\*   active      the ActiveForkPointer, an option
\*   persistent  the PersistentAccountSet
\*   shared      the shared state of each persistent address (0 otherwise)
\*   local       the override layer in use while no fork is selected
\*   cheat       addresses granted cheatcode access
WriteVals == {7, 8}

EmptyDb ==
    [forks |-> << >>, next_id |-> 1, active |-> None, persistent |-> {},
     shared |-> [a \in Addresses |-> 0], local |-> NoOverrides, cheat |-> {},
     journal |-> None]

EnvAt(u, b) == [number |-> b, chain |-> UrlIx(u)]
LocalEnv == [number |-> 0, chain |-> 0]

\* what the layers of fork f answer for a non-persistent address a
ForkValue(fk, a) ==
    IF IsSome(fk.overrides[a]) THEN Unwrap(fk.overrides[a])
    ELSE Remote(fk.url, fk.anchor.block, a)
LocalValue(db, a) == IF IsSome(db.local[a]) THEN Unwrap(db.local[a]) ELSE 0
\* the state of address a as the active context holds it
ActiveValue(db, a) ==
    IF a \in db.persistent THEN db.shared[a]
    ELSE IF IsSome(db.active) THEN ForkValue(db.forks[Unwrap(db.active)], a)
    ELSE LocalValue(db, a)

active_fork_id(db) == db.active
active_fork_url(db) ==
    IF IsSome(db.active) THEN Some(db.forks[Unwrap(db.active)].url) ELSE None
is_persistent(db, a) == a \in db.persistent

\* a layer without the entries of persistent addresses
StripPersistent(db, ov) ==
    [a \in Addresses |-> IF a \in db.persistent THEN None ELSE ov[a]]

NewFork(db, req, anchor, number, ov) ==
    [url |-> req.url, caching |-> req.enable_caching, anchor |-> anchor,
     env |-> EnvAt(req.url, number), overrides |-> StripPersistent(db, ov)]

\* the id a creation hands out
AllocId(db) == db.next_id

InsertFork(db, fk) ==
    [db EXCEPT !.forks = [i \in (DOMAIN db.forks) \cup {AllocId(db)} |->
                              IF i = AllocId(db) THEN fk ELSE db.forks[i]],
               !.next_id = AllocId(db) + 1]

\* the block a creation request names: the tip if none is given
ReqBlock(req) == IF IsSome(req.block) THEN Unwrap(req.block) ELSE MaxBlock

\* create_fork(endpoint_descriptor, anchor?) -> ForkId
db_create_fork(db, req, remote_ok) ==
    IF ~remote_ok \/ ReqBlock(req) > MaxBlock
    THEN [res |-> Err("RemoteRpcError"), db |-> db]
    ELSE [res |-> Ok(AllocId(db)),
          db |-> InsertFork(db, NewFork(db, req,
                     [block |-> ReqBlock(req), tx |-> None], ReqBlock(req), NoOverrides))]

\* create_fork_at_transaction(endpoint_descriptor, tx_hash) -> ForkId
db_create_fork_at_transaction(db, req, tx, remote_ok) ==
    IF ~remote_ok \/ tx \notin Txs
    THEN [res |-> Err("RemoteRpcError"), db |-> db]
    ELSE [res |-> Ok(AllocId(db)),
          db |-> InsertFork(db, NewFork(db, req,
                     [block |-> TxBlock - 1, tx |-> Some(tx)], TxBlock,
                     ReplayOverrides(req.url, tx)))]

\* select_fork(id) -> ()
db_select_fork(db, id, env) ==
    IF id \notin DOMAIN db.forks
    THEN [res |-> Err("UnknownForkId"), db |-> db, env |-> env]
    ELSE [res |-> Ok(None), db |-> [db EXCEPT !.active = Some(id)],
          env |-> db.forks[id].env]

\* create_select_fork(...) -> ForkId: create + select in one step
db_create_select_fork(db, req, env, remote_ok) ==
    LET c == db_create_fork(db, req, remote_ok) IN
    IF ~c.res.ok THEN [res |-> c.res, db |-> db, env |-> env]
    ELSE LET s == db_select_fork(c.db, c.res.val, env)
         IN  [res |-> c.res, db |-> s.db, env |-> s.env]

db_create_select_fork_at_transaction(db, req, env, tx, remote_ok) ==
    LET c == db_create_fork_at_transaction(db, req, tx, remote_ok) IN
    IF ~c.res.ok THEN [res |-> c.res, db |-> db, env |-> env]
    ELSE LET s == db_select_fork(c.db, c.res.val, env)
         IN  [res |-> c.res, db |-> s.db, env |-> s.env]

\* the fork an optional id names: the active one if none is given
TargetFork(db, id) == IF IsSome(id) THEN id ELSE db.active

\* fork t of db re-anchored: same id, endpoint and caching policy, the
\* override layer rebuilt relative to the new anchor
Reanchor(db, t, anchor, number, ov) ==
    [db EXCEPT !.forks[t].anchor = anchor,
               !.forks[t].env = EnvAt(db.forks[t].url, number),
               !.forks[t].overrides = StripPersistent(db, ov)]

RollResult(db, t, env, anchor, number, ov) ==
    LET d == Reanchor(db, t, anchor, number, ov) IN
    [res |-> Ok(None), db |-> d,
     env |-> IF db.active = Some(t) THEN d.forks[t].env ELSE env]

\* roll_fork(id_or_active, new_anchor) -> ()
db_roll_fork(db, id, block, env, remote_ok) ==
    LET t == TargetFork(db, id) IN
    IF ~IsSome(t) THEN [res |-> Err("NoActiveFork"), db |-> db, env |-> env]
    ELSE IF Unwrap(t) \notin DOMAIN db.forks
    THEN [res |-> Err("UnknownForkId"), db |-> db, env |-> env]
    ELSE IF ~remote_ok \/ block > MaxBlock
    THEN [res |-> Err("RemoteRpcError"), db |-> db, env |-> env]
    ELSE RollResult(db, Unwrap(t), env, [block |-> block, tx |-> None], block,
                    NoOverrides)

\* roll_fork_to_transaction(id_or_active, tx_hash) -> ()
db_roll_fork_to_transaction(db, id, tx, env, remote_ok) ==
    LET t == TargetFork(db, id) IN
    IF ~IsSome(t) THEN [res |-> Err("NoActiveFork"), db |-> db, env |-> env]
    ELSE IF Unwrap(t) \notin DOMAIN db.forks
    THEN [res |-> Err("UnknownForkId"), db |-> db, env |-> env]
    ELSE IF ~remote_ok \/ tx \notin Txs
    THEN [res |-> Err("RemoteRpcError"), db |-> db, env |-> env]
    ELSE RollResult(db, Unwrap(t), env, [block |-> TxBlock - 1, tx |-> Some(tx)],
                    TxBlock, ReplayOverrides(db.forks[Unwrap(t)].url, tx))

\* set(address, value): a persistent address writes through to the shared
\* state, any other to the override layer of fork t (the local layer if None)
\* the journal of an open checkpoint: for every place written since, what
\* it held before the first of these writes
\*   layers   << layer, address, entry before >>, layer 0 the local one
\*   shared   << address, value before >>
EmptyJournal == [layers |-> {}, shared |-> {}]
LayerOf(t) == IF IsSome(t) THEN Unwrap(t) ELSE 0
LayerEntry(db, k, a) == IF k = 0 THEN db.local[a] ELSE db.forks[k].overrides[a]
Journaled(db, t, a) ==
    IF ~IsSome(db.journal) THEN None
    ELSE LET j == Unwrap(db.journal) IN
         IF a \in db.persistent
         THEN IF \E e \in j.shared : e[1] = a THEN Some(j)
              ELSE Some([j EXCEPT !.shared = @ \cup {<< a, db.shared[a] >>}])
         ELSE IF \E e \in j.layers : e[1] = LayerOf(t) /\ e[2] = a THEN Some(j)
              ELSE Some([j EXCEPT !.layers =
                            @ \cup {<< LayerOf(t), a, LayerEntry(db, LayerOf(t), a) >>}])

db_set_on(db, t, a, v) ==
    IF a \in db.persistent
    THEN [db EXCEPT !.shared[a] = v, !.journal = Journaled(db, t, a)]
    ELSE IF IsSome(t)
    THEN [db EXCEPT !.forks[Unwrap(t)].overrides[a] = Some(v),
                    !.journal = Journaled(db, t, a)]
    ELSE [db EXCEPT !.local[a] = Some(v), !.journal = Journaled(db, t, a)]

\* checkpoint() / commit() / revert(): a revert undoes the writes journaled
\* for the layer of the active fork and those journaled for the shared
\* states of persistent addresses
db_checkpoint(db) == [db EXCEPT !.journal = Some(EmptyJournal)]
db_checkpoint_commit(db) == [db EXCEPT !.journal = None]

\* revert that leaves the shared states of persistent addresses as written
db_revert_layer_only(db) ==
    LET j == Unwrap(db.journal)
        k == LayerOf(db.active)
        before(a) == (CHOOSE e \in j.layers : e[1] = k /\ e[2] = a)[3]
        undo(a) == a \notin db.persistent /\ \E e \in j.layers : e[1] = k /\ e[2] = a
    IN  [db EXCEPT
            !.local = [a \in Addresses |-> IF k = 0 /\ undo(a) THEN before(a) ELSE @[a]],
            !.forks = [i \in DOMAIN db.forks |->
                          [db.forks[i] EXCEPT !.overrides =
                              [a \in Addresses |->
                                  IF k = i /\ undo(a) THEN before(a) ELSE @[a]]]],
            !.journal = None]

db_revert(db) ==
    LET j == Unwrap(db.journal)
        k == LayerOf(db.active)
        before(a) == (CHOOSE e \in j.layers : e[1] = k /\ e[2] = a)[3]
        undo(a) == a \notin db.persistent /\ \E e \in j.layers : e[1] = k /\ e[2] = a
        shared_before(a) == (CHOOSE e \in j.shared : e[1] = a)[2]
        shared_undo(a) == a \in db.persistent /\ \E e \in j.shared : e[1] = a
    IN  [db EXCEPT
            !.shared = [a \in Addresses |-> IF shared_undo(a) THEN shared_before(a) ELSE @[a]],
            !.local = [a \in Addresses |-> IF k = 0 /\ undo(a) THEN before(a) ELSE @[a]],
            !.forks = [i \in DOMAIN db.forks |->
                          [db.forks[i] EXCEPT !.overrides =
                              [a \in Addresses |->
                                  IF k = i /\ undo(a) THEN before(a) ELSE @[a]]]],
            !.journal = None]

db_set(db, a, v) == db_set_on(db, db.active, a, v)

\* get(address) -> Value: persistent state, else the active fork's override
\* layer, else a fetch at the fork's anchor that is kept in the layer
db_get(db, a, remote_ok) ==
    IF a \in db.persistent THEN [res |-> Ok(db.shared[a]), db |-> db]
    ELSE IF ~IsSome(db.active) THEN [res |-> Ok(LocalValue(db, a)), db |-> db]
    ELSE LET fk == db.forks[Unwrap(db.active)] IN
         IF IsSome(fk.overrides[a])
         THEN [res |-> Ok(Unwrap(fk.overrides[a])), db |-> db]
         ELSE IF ~remote_ok THEN [res |-> Err("RemoteRpcError"), db |-> db]
         ELSE [res |-> Ok(Remote(fk.url, fk.anchor.block, a)),
               db |-> db_set(db, a, Remote(fk.url, fk.anchor.block, a))]

\* replay_transaction(tx_hash, target_fork) -> ()
db_transact(db, id, tx, env, remote_ok) ==
    LET t == TargetFork(db, id) IN
    IF ~IsSome(t) THEN [res |-> Err("NoActiveFork"), db |-> db, env |-> env]
    ELSE IF Unwrap(t) \notin DOMAIN db.forks
    THEN [res |-> Err("UnknownForkId"), db |-> db, env |-> env]
    ELSE IF ~remote_ok \/ tx \notin Txs
    THEN [res |-> Err("RemoteRpcError"), db |-> db, env |-> env]
    ELSE [res |-> Ok(None),
          db |-> db_set_on(db, t, TxAddr(tx), TxVal(db.forks[Unwrap(t)].url, tx)),
          env |-> env]

\* Persistent Account Set: add, with the promotion policy of section 4.3
add_persistent_account(db, a) ==
    IF a \in db.persistent THEN db
    ELSE [db EXCEPT !.persistent = @ \cup {a},
                    !.shared[a] = ActiveValue(db, a),
                    !.local[a] = None,
                    !.forks = [i \in DOMAIN db.forks |->
                                  [db.forks[i] EXCEPT !.overrides[a] = None]]]

RECURSIVE extend_persistent_accounts(_, _)
extend_persistent_accounts(db, accs) ==
    IF accs = << >> THEN db
    ELSE extend_persistent_accounts(add_persistent_account(db, Head(accs)), Tail(accs))

remove_persistent_account(db, a) ==
    [db EXCEPT !.persistent = @ \ {a}, !.shared[a] = 0]

RECURSIVE remove_persistent_accounts(_, _)
remove_persistent_accounts(db, accs) ==
    IF accs = << >> THEN db
    ELSE remove_persistent_accounts(remove_persistent_account(db, Head(accs)), Tail(accs))

allow_cheatcode_access(db, a) == [db EXCEPT !.cheat = @ \cup {a}]

\* ------------------------------------------------------------------ state
VARIABLES
    broadcast,        \* state.broadcast.is_some()
    corrected_nonce,  \* state.corrected_nonce
    config,           \* state.config.rpc_endpoints
    db,               \* data.db
    env,              \* data.env, the shared execution environment
    ret,              \* the last call and what it returned
    sent,             \* the endpoint the last call sent a request to, if any
    aborted,          \* the process has panicked
    last_selected,    \* history: the id of the last selection that succeeded
    created,          \* history: the ids returned by creations, in order
    wr,               \* history: the last write to each non-persistent
                      \* address under each fork since its last re-anchoring
    bsnap,            \* history: active fork, anchor and env at broadcast start
    pset,             \* history: the addresses made persistent and not revoked since
    revoked,          \* history: the addresses a revoke took out of the set
                      \* and that were not made persistent since
    pwr,              \* history: the last write to each persistent address
    lost,             \* history: the last call's re-anchoring discarded a write
    csnap             \* history: the persistent set and the reads at the checkpoint

vars == << broadcast, corrected_nonce, config, db, env, ret, sent, aborted,
           last_selected, created, wr, bsnap, pset, revoked, pwr, lost, csnap >>

\* what one handler leaves behind: its result and the state it wrote
Out(res, nonce, d, e) ==
    [res |-> res, nonce |-> nonce, db |-> d, env |-> e, sent |-> None, panic |-> FALSE]
Same(res) == Out(res, corrected_nonce, db, env)
PanicOut ==
    [res |-> Err("panic"), nonce |-> corrected_nonce, db |-> db, env |-> env,
     sent |-> None, panic |-> TRUE]

\* DynSolValue::Uint(id, 256).encode_single(), DynSolValue::Bool(b)
EncodeUint(n) == << n >>
EncodeBool(b) == << IF b THEN 1 ELSE 0 >>

empty(x) == << >>

\* U256::as_u64 of the uint crate: the low word, a panic if the value does
\* not fit one
AsU64Fits(x) == FitsWord(x)

enable_for_endpoint(url) == url = "urlA"

\* ------------------------------------------------------------------ helpers
create_fork_request(url_or_alias, block) ==
    LET url == get_rpc_url(config, url_or_alias) IN
    IF ~url.ok THEN Err(url.err)
    ELSE Ok([url |-> url.val, enable_caching |-> enable_for_endpoint(url.val),
             env |-> env, block |-> block])

\* select_fork that takes the result and the environment of the selection
\* and leaves the backend's active fork as it was
select_fork_not_switched(fork_id) ==
    IF broadcast THEN Same(Err("SelectForkDuringBroadcast"))
    ELSE LET s == db_select_fork(db, fork_id, env) IN
         IF ~s.res.ok THEN Out(Err(s.res.err), TRUE, db, env)
         ELSE Out(Ok(<< >>), TRUE, db, s.env)

\* select_fork that moves the active pointer and keeps the environment
select_fork_env_kept(fork_id) ==
    IF broadcast THEN Same(Err("SelectForkDuringBroadcast"))
    ELSE LET s == db_select_fork(db, fork_id, env) IN
         IF ~s.res.ok THEN Out(Err(s.res.err), TRUE, db, env)
         ELSE Out(Ok(<< >>), TRUE, s.db, env)

select_fork(fork_id) ==
    IF broadcast THEN Same(Err("SelectForkDuringBroadcast"))
    ELSE LET s == db_select_fork(db, fork_id, env) IN
         IF ~s.res.ok THEN Out(Err(s.res.err), TRUE, db, env)
         ELSE Out(Ok(<< >>), TRUE, s.db, s.env)

\* create_select_fork that creates the fork and leaves it unselected
create_select_fork_unselected(url_or_alias, block, remote_ok) ==
    IF broadcast THEN Same(Err("SelectForkDuringBroadcast"))
    ELSE LET fork == create_fork_request(url_or_alias, block) IN
         IF ~fork.ok THEN Out(Err(fork.err), TRUE, db, env)
         ELSE LET c == db_create_fork(db, fork.val, remote_ok) IN
              IF ~c.res.ok THEN Out(Err(c.res.err), TRUE, db, env)
              ELSE Out(Ok(EncodeUint(c.res.val)), TRUE, c.db, env)

create_select_fork(url_or_alias, block, remote_ok) ==
    IF broadcast THEN Same(Err("SelectForkDuringBroadcast"))
    ELSE LET fork == create_fork_request(url_or_alias, block) IN
         IF ~fork.ok THEN Out(Err(fork.err), TRUE, db, env)
         ELSE LET c == db_create_select_fork(db, fork.val, env, remote_ok) IN
              IF ~c.res.ok THEN Out(Err(c.res.err), TRUE, db, env)
              ELSE Out(Ok(EncodeUint(c.res.val)), TRUE, c.db, c.env)

\* create_fork that returns the new id and leaves the backend as it was
create_fork_not_kept(url_or_alias, block, remote_ok) ==
    LET fork == create_fork_request(url_or_alias, block) IN
    IF ~fork.ok THEN Same(Err(fork.err))
    ELSE LET c == db_create_fork(db, fork.val, remote_ok) IN
         IF ~c.res.ok THEN Same(Err(c.res.err))
         ELSE Out(Ok(EncodeUint(c.res.val)), corrected_nonce, db, env)

create_fork(url_or_alias, block, remote_ok) ==
    LET fork == create_fork_request(url_or_alias, block) IN
    IF ~fork.ok THEN Same(Err(fork.err))
    ELSE LET c == db_create_fork(db, fork.val, remote_ok) IN
         IF ~c.res.ok THEN Same(Err(c.res.err))
         ELSE Out(Ok(EncodeUint(c.res.val)), corrected_nonce, c.db, env)

\* create_select_fork_at_transaction without the broadcast check
create_select_fork_at_transaction_unchecked(url_or_alias, transaction, remote_ok) ==
    LET fork == create_fork_request(url_or_alias, None) IN
    IF ~fork.ok THEN Out(Err(fork.err), TRUE, db, env)
    ELSE LET c == db_create_select_fork_at_transaction(db, fork.val, env,
                                                       transaction, remote_ok) IN
         IF ~c.res.ok THEN Out(Err(c.res.err), TRUE, db, env)
         ELSE Out(Ok(EncodeUint(c.res.val)), TRUE, c.db, c.env)

create_select_fork_at_transaction(url_or_alias, transaction, remote_ok) ==
    IF broadcast THEN Same(Err("SelectForkDuringBroadcast"))
    ELSE LET fork == create_fork_request(url_or_alias, None) IN
         IF ~fork.ok THEN Out(Err(fork.err), TRUE, db, env)
         ELSE LET c == db_create_select_fork_at_transaction(db, fork.val, env,
                                                            transaction, remote_ok) IN
              IF ~c.res.ok THEN Out(Err(c.res.err), TRUE, db, env)
              ELSE Out(Ok(EncodeUint(c.res.val)), TRUE, c.db, c.env)

\* create_fork_at_transaction that calls the creation that also selects
create_fork_at_transaction_selecting(url_or_alias, transaction, remote_ok) ==
    LET fork == create_fork_request(url_or_alias, None) IN
    IF ~fork.ok THEN Same(Err(fork.err))
    ELSE LET c == db_create_select_fork_at_transaction(db, fork.val, env,
                                                       transaction, remote_ok) IN
         IF ~c.res.ok THEN Same(Err(c.res.err))
         ELSE Out(Ok(EncodeUint(c.res.val)), corrected_nonce, c.db, c.env)

create_fork_at_transaction(url_or_alias, transaction, remote_ok) ==
    LET fork == create_fork_request(url_or_alias, None) IN
    IF ~fork.ok THEN Same(Err(fork.err))
    ELSE LET c == db_create_fork_at_transaction(db, fork.val, transaction, remote_ok) IN
         IF ~c.res.ok THEN Same(Err(c.res.err))
         ELSE Out(Ok(EncodeUint(c.res.val)), corrected_nonce, c.db, env)

\* the most topics a filter takes
MaxTopics == 4

\* the fields of a log entry that the response may leave out
LogFields == {"block_number", "transaction_hash", "transaction_index",
              "block_hash", "log_index", "removed"}
FullEntry == [f \in LogFields |-> Some(1)]
EntryWithout(g) == [f \in LogFields |-> IF f = g THEN None ELSE Some(1)]
\* one entry as the tuple the cheatcode returns
EncodeEntry(e) == [f \in LogFields |-> Unwrap(e[f])]
EncodeLogs(logs) == [i \in 1..Len(logs) |-> EncodeEntry(logs[i])]

\* the filter of the request: address, block range, topic0..topic3
BuildFilter(from, to, topics) ==
    [from_block |-> LowU64(from), to_block |-> LowU64(to),
     topics |-> [i \in 1..Len(topics) |-> topics[i]]]

\* eth_getlogs that turns away a filter of MaxTopics topics
eth_getlogs_fewer_topics(from, to, topics, response) ==
    LET url == active_fork_url(db) IN
    IF ~IsSome(url) THEN Same(Err("NoActiveFork"))
    ELSE IF U256Gt(from, U256FromU64(U64_MAX)) \/ U256Gt(to, U256FromU64(U64_MAX))
    THEN Same(Err("RangeTooLarge"))
    ELSE IF Len(topics) >= MaxTopics THEN Same(Err("TooManyTopics"))
    ELSE LET request == [Same(Err("RemoteRpcError")) EXCEPT !.sent = url] IN
         IF ~response.ok THEN request
         ELSE IF response.val = << >> THEN [request EXCEPT !.res = Ok(<< >>)]
         ELSE IF \E i \in 1..Len(response.val) : \E f \in LogFields :
                     ~IsSome(response.val[i][f])
         THEN [PanicOut EXCEPT !.sent = url]
         ELSE [request EXCEPT !.res = Ok(EncodeLogs(response.val))]

\* Retrieve the logs specified for the current fork.  `response` is what
\* the provider answers: an error, or the list of entries.
eth_getlogs(from, to, topics, response) ==
    LET url == active_fork_url(db) IN
    IF ~IsSome(url) THEN Same(Err("NoActiveFork"))
    ELSE IF U256Gt(from, U256FromU64(U64_MAX)) \/ U256Gt(to, U256FromU64(U64_MAX))
    THEN Same(Err("RangeTooLarge"))
    ELSE IF Len(topics) > MaxTopics THEN Same(Err("TooManyTopics"))
    ELSE LET request == [Same(Err("RemoteRpcError")) EXCEPT !.sent = url] IN
         IF ~response.ok THEN request
         ELSE IF response.val = << >> THEN [request EXCEPT !.res = Ok(<< >>)]
         ELSE IF \E i \in 1..Len(response.val) : \E f \in LogFields :
                     ~IsSome(response.val[i][f])
         THEN [PanicOut EXCEPT !.sent = url]
         ELSE [request EXCEPT !.res = Ok(EncodeLogs(response.val))]

\* serde_json::from_str on the params string
ParsesAsJson(params) == params = "[1]"
\* value_to_token on the result
ResultToToken(result) == IF result = "0x1" THEN Ok(<< 1 >>) ELSE Err("ParseResult")

\* rpc that asks the endpoint of the fork created first
rpc_first_fork(method, params, response) ==
    LET url == IF IsSome(db.active) THEN Some(db.forks[1].url) ELSE None IN
    IF ~IsSome(url) THEN Same(Err("NoActiveFork"))
    ELSE IF ~ParsesAsJson(params) THEN Same(Err("SerializationError"))
    ELSE LET request == [Same(Err("RemoteRpcError")) EXCEPT !.sent = url] IN
         IF ~response.ok THEN request
         ELSE [request EXCEPT !.res = ResultToToken(response.val)]

\* rpc that sends the request and parses params afterwards
rpc_request_first(method, params, response) ==
    LET url == active_fork_url(db) IN
    IF ~IsSome(url) THEN Same(Err("NoActiveFork"))
    ELSE LET request == [Same(Err("RemoteRpcError")) EXCEPT !.sent = url] IN
         IF ~response.ok THEN request
         ELSE IF ~ParsesAsJson(params)
         THEN [request EXCEPT !.res = Err("SerializationError")]
         ELSE [request EXCEPT !.res = ResultToToken(response.val)]

rpc(method, params, response) ==
    LET url == active_fork_url(db) IN
    IF ~IsSome(url) THEN Same(Err("NoActiveFork"))
    ELSE IF ~ParsesAsJson(params) THEN Same(Err("SerializationError"))
    ELSE LET request == [Same(Err("RemoteRpcError")) EXCEPT !.sent = url] IN
         IF ~response.ok THEN request
         ELSE [request EXCEPT !.res = ResultToToken(response.val)]

\* ------------------------------------------------------------------ apply
\* the arms of `apply` that hold their code inline
apply_CreateFork1(url_or_alias, block, remote_ok) ==
    IF ~AsU64Fits(block) THEN PanicOut
    ELSE create_fork(url_or_alias, Some(BlockOfU64(LowU64(block))), remote_ok)

apply_CreateSelectFork1(url_or_alias, block, remote_ok) ==
    IF ~AsU64Fits(block) THEN PanicOut
    ELSE create_select_fork(url_or_alias, Some(BlockOfU64(LowU64(block))), remote_ok)

\* MakePersistent0 that calls the removal
apply_MakePersistent0_removes(acc) ==
    Out(Ok(<< >>), corrected_nonce, remove_persistent_account(db, acc), env)

apply_MakePersistent0(acc) ==
    Out(Ok(<< >>), corrected_nonce, add_persistent_account(db, acc), env)

apply_MakePersistent1(accs) ==
    Out(Ok(<< >>), corrected_nonce, extend_persistent_accounts(db, accs), env)

\* MakePersistent2 that adds the first account only
apply_MakePersistent2_first_only(acc0, acc1) ==
    Out(Ok(<< >>), corrected_nonce, add_persistent_account(db, acc0), env)

apply_MakePersistent2(acc0, acc1) ==
    Out(Ok(<< >>), corrected_nonce,
        add_persistent_account(add_persistent_account(db, acc0), acc1), env)

\* MakePersistent3 that adds the first two accounts only
apply_MakePersistent3_two_only(acc0, acc1, acc2) ==
    Out(Ok(<< >>), corrected_nonce,
        add_persistent_account(add_persistent_account(db, acc0), acc1), env)

apply_MakePersistent3(acc0, acc1, acc2) ==
    Out(Ok(<< >>), corrected_nonce,
        add_persistent_account(
            add_persistent_account(add_persistent_account(db, acc0), acc1), acc2), env)

apply_IsPersistent(acc) == Same(Ok(EncodeBool(is_persistent(db, acc))))

apply_RevokePersistent0(acc) ==
    Out(Ok(<< >>), corrected_nonce, remove_persistent_account(db, acc), env)

\* RevokePersistent1 that removes the first account of the list only
apply_RevokePersistent1_first_only(accs) ==
    Out(Ok(<< >>), corrected_nonce, remove_persistent_account(db, Head(accs)), env)

apply_RevokePersistent1(accs) ==
    Out(Ok(<< >>), corrected_nonce, remove_persistent_accounts(db, accs), env)

\* ActiveFork answering the default id when no fork is active
apply_ActiveFork_or_default ==
    Same(Ok(EncodeUint(IF IsSome(active_fork_id(db)) THEN Unwrap(active_fork_id(db)) ELSE 0)))

apply_ActiveFork ==
    IF IsSome(active_fork_id(db)) THEN Same(Ok(EncodeUint(Unwrap(active_fork_id(db)))))
    ELSE Same(Err("NoActiveFork"))

\* .map(empty).map_err(Into::into) on a backend result
MapEmpty(r) ==
    IF r.res.ok THEN Out(Ok(empty(r.res.val)), corrected_nonce, r.db, r.env)
    ELSE Out(Err(r.res.err), corrected_nonce, r.db, r.env)

apply_RollFork0(block, remote_ok) ==
    MapEmpty(db_roll_fork(db, None, block, env, remote_ok))
apply_RollFork1(tx, remote_ok) ==
    MapEmpty(db_roll_fork_to_transaction(db, None, tx, env, remote_ok))
\* RollFork2 that drops the id and rolls the active fork
apply_RollFork2_active(id, block, remote_ok) ==
    MapEmpty(db_roll_fork(db, None, block, env, remote_ok))

apply_RollFork2(id, block, remote_ok) ==
    MapEmpty(db_roll_fork(db, Some(id), block, env, remote_ok))
apply_RollFork3(id, tx, remote_ok) ==
    MapEmpty(db_roll_fork_to_transaction(db, Some(id), tx, env, remote_ok))

apply_RpcUrl(alias) ==
    LET url == get_rpc_url(config, alias) IN
    IF url.ok THEN Same(Ok(<< url.val >>)) ELSE Same(Err(url.err))

\* the loop of RpcUrls and RpcUrlStructs over the configured aliases: the
\* pairs so far, or the first resolution error
RECURSIVE ResolveAll(_, _, _)
ResolveAll(cfg, i, urls) ==
    IF i > Len(cfg) THEN Ok(urls)
    ELSE LET url == get_rpc_url(cfg, cfg[i].alias) IN
         IF url.ok THEN ResolveAll(cfg, i + 1, Append(urls, << cfg[i].alias, url.val >>))
         ELSE Err(url.err)

\* DynSolValue::Array of FixedArray [alias, url] / of Tuple (alias, url)
EncodePairs(kind, urls) == [i \in 1..Len(urls) |-> [kind |-> kind, items |-> urls[i]]]
EncodeAll(kind, r) == IF r.ok THEN Ok(EncodePairs(kind, r.val)) ELSE r

\* the loop of RpcUrls that passes over an alias that does not resolve
RECURSIVE ResolveSome(_, _, _)
ResolveSome(cfg, i, urls) ==
    IF i > Len(cfg) THEN Ok(urls)
    ELSE LET url == get_rpc_url(cfg, cfg[i].alias) IN
         IF url.ok THEN ResolveSome(cfg, i + 1, Append(urls, << cfg[i].alias, url.val >>))
         ELSE ResolveSome(cfg, i + 1, urls)

\* RpcUrls that returns the pairs of the aliases that resolve
apply_RpcUrls_skipping == Same(EncodeAll("fixed_array", ResolveSome(config, 1, << >>)))

apply_RpcUrls == Same(EncodeAll("fixed_array", ResolveAll(config, 1, << >>)))
apply_RpcUrlStructs == Same(EncodeAll("tuple", ResolveAll(config, 1, << >>)))

apply_AllowCheatcodes(addr) ==
    Out(Ok(<< >>), corrected_nonce, allow_cheatcode_access(db, addr), env)

apply_Transact0(tx, remote_ok) ==
    MapEmpty(db_transact(db, None, tx, env, remote_ok))
apply_Transact1(id, tx, remote_ok) ==
    MapEmpty(db_transact(db, Some(id), tx, env, remote_ok))

\* ------------------------------------------------------------------ history
SelectOps == {"selectFork", "createSelectFork0", "createSelectFork1", "createSelectFork2"}
CreateSelectOps == SelectOps \ {"selectFork"}
CreateOps == {"createFork0", "createFork1", "createFork2"} \cup CreateSelectOps
RollOps == {"rollFork0", "rollFork1", "rollFork2", "rollFork3"}
TransactOps == {"transact0", "transact1"}
MakePersistentOps == {"makePersistent0", "makePersistent1", "makePersistent2",
                      "makePersistent3"}
RevokePersistentOps == {"revokePersistent0", "revokePersistent1"}

\* the layer a fork pointer names in the history: 0 is the local layer
Key(o) == IF IsSome(o) THEN Unwrap(o) ELSE 0
WrGet(k, a) ==
    IF \E t \in wr : t[1] = k /\ t[2] = a
    THEN Some((CHOOSE t \in wr : t[1] = k /\ t[2] = a)[3]) ELSE None
WrPut(k, a, v) == {t \in wr : ~(t[1] = k /\ t[2] = a)} \cup {<< k, a, v >>}

\* the fork a roll or transact call is aimed at
OpTarget(op, args) ==
    IF op \in {"rollFork0", "rollFork1", "transact0"} THEN last_selected
    ELSE Some(args[1])
OpTx(op, args) == IF op \in {"transact0", "rollFork1"} THEN args[1] ELSE args[2]
Elems(args) == {args[i] : i \in 1..Len(args)}

NextLastSelected(op, args, out) ==
    IF op = "selectFork" /\ out.res.ok THEN Some(args[1])
    ELSE IF op \in CreateSelectOps /\ out.res.ok THEN Some(out.res.val[1])
    ELSE last_selected

NextCreated(op, out) ==
    IF op \in CreateOps /\ out.res.ok THEN Append(created, out.res.val[1]) ELSE created

NextPset(op, args) ==
    IF op \in MakePersistentOps THEN pset \cup Elems(args)
    ELSE IF op \in RevokePersistentOps THEN pset \ Elems(args)
    ELSE pset

NextRevoked(op, args) ==
    IF op \in MakePersistentOps THEN revoked \ Elems(args)
    ELSE IF op \in RevokePersistentOps THEN revoked \cup (Elems(args) \cap pset)
    ELSE revoked

\* the writes a replay up to transaction t leaves on layer k of endpoint u
ReplayWrites(k, u, t) ==
    {<< k, a, Unwrap(ReplayOverrides(u, t)[a]) >> :
        a \in {b \in Addresses \ pset : IsSome(ReplayOverrides(u, t)[b])}}

NextWr(op, args, out) ==
    IF ~out.res.ok THEN wr
    ELSE IF op = "write"
    THEN IF args[1] \in pset THEN wr ELSE WrPut(Key(last_selected), args[1], args[2])
    ELSE IF op \in TransactOps
    THEN IF TxAddr(OpTx(op, args)) \in pset THEN wr
         ELSE WrPut(Key(OpTarget(op, args)), TxAddr(OpTx(op, args)),
                    TxVal(db.forks[Key(OpTarget(op, args))].url, OpTx(op, args)))
    ELSE IF op \in {"rollFork0", "rollFork2"}
    THEN {t \in wr : t[1] # Key(OpTarget(op, args))}
    ELSE IF op \in {"rollFork1", "rollFork3"}
    THEN {t \in wr : t[1] # Key(OpTarget(op, args))}
             \cup ReplayWrites(Key(OpTarget(op, args)),
                               db.forks[Key(OpTarget(op, args))].url, OpTx(op, args))
    ELSE IF op \in {"createFork2", "createSelectFork2"}
    THEN wr \cup ReplayWrites(out.res.val[1], get_rpc_url(config, args[1]).val, args[2])
    ELSE IF op \in MakePersistentOps THEN {t \in wr : t[2] \notin Elems(args)}
    ELSE IF op = "revert" /\ IsSome(csnap)
    THEN {t \in wr : t[1] # Key(last_selected) \/ t[2] \in pset}
             \cup {t \in Unwrap(csnap).wr : t[1] = Key(last_selected) /\ t[2] \notin pset}
    ELSE wr

\* what the history says layer k answers for a: the last write made on that
\* layer since it was anchored, else the remote value at the layer's anchor
Expected(k, a) ==
    IF IsSome(WrGet(k, a)) THEN Unwrap(WrGet(k, a))
    ELSE IF k = 0 THEN 0
    ELSE Remote(db.forks[k].url, db.forks[k].anchor.block, a)

\* the call discarded values: a roll the writes of its fork, a promotion
\* the value another fork held for the address, a revert a write to a
\* persistent and a write to a non-persistent address
NextLost(op, args, out) ==
    /\ out.res.ok
    /\ \/ /\ op \in RollOps
          /\ \E t \in wr : t[1] = Key(OpTarget(op, args))
       \/ /\ op \in MakePersistentOps
          /\ \E a \in Elems(args) \ pset : \E k \in DOMAIN db.forks :
                 Expected(k, a) # Expected(Key(last_selected), a)
       \/ /\ op = "revert" /\ IsSome(csnap)
          /\ \E t \in wr : t[1] = Key(last_selected) /\ t \notin Unwrap(csnap).wr
          /\ \E a \in pset \cap Unwrap(csnap).pset : pwr[a] # Unwrap(csnap).pwr[a]

NextPwr(op, args, out) ==
    IF ~out.res.ok THEN pwr
    ELSE IF op = "write" /\ args[1] \in pset
    THEN [pwr EXCEPT ![args[1]] = Some(<< args[2], Key(last_selected) >>)]
    ELSE IF op \in TransactOps /\ TxAddr(OpTx(op, args)) \in pset
    THEN [pwr EXCEPT ![TxAddr(OpTx(op, args))] =
              Some(<< TxVal(db.forks[Key(OpTarget(op, args))].url, OpTx(op, args)),
                      Key(last_selected) >>)]
    ELSE IF op \in MakePersistentOps
    THEN [a \in Addresses |-> IF a \in Elems(args) \ pset THEN None ELSE pwr[a]]
    ELSE IF op \in RevokePersistentOps
    THEN [a \in Addresses |-> IF a \in Elems(args) THEN None ELSE pwr[a]]
    ELSE IF op = "revert" /\ IsSome(csnap)
    THEN [a \in Addresses |->
             IF a \in pset \cap Unwrap(csnap).pset THEN Unwrap(csnap).pwr[a]
             ELSE IF a \in pset THEN None ELSE pwr[a]]
    ELSE pwr

ActiveAnchor(d) == IF IsSome(d.active) THEN Some(d.forks[Unwrap(d.active)].anchor) ELSE None
NoSnap == [active |-> None, anchor |-> None, env |-> LocalEnv]

NextSnap(op) ==
    IF op = "startBroadcast"
    THEN [active |-> db.active, anchor |-> ActiveAnchor(db), env |-> env]
    ELSE IF op = "stopBroadcast" THEN NoSnap
    ELSE bsnap

\* at a checkpoint: which fork is active, which addresses are persistent,
\* what a read of each address returns, and the writes so far; kept until
\* the call after the checkpoint is committed or reverted
NextCsnap(op) ==
    IF op = "checkpoint"
    THEN Some([active |-> Key(last_selected), pset |-> pset,
               reads |-> [a \in Addresses |-> ActiveValue(db, a)],
               wr |-> wr, pwr |-> pwr])
    ELSE IF IsSome(db.journal) /\ op # "commit" THEN csnap
    ELSE None

\* the calls whose arguments ret keeps; of a creation it keeps the alias
ArgOps == {"selectFork", "read", "isPersistent", "eth_getLogs", "rpc"} \cup RollOps

\* one call: the handler's result becomes the new state
Commit(op, args, out) ==
    /\ ~aborted
    /\ ret' = [op |-> op,
               args |-> IF op \in ArgOps THEN args
                        ELSE IF op \in CreateOps THEN << args[1] >> ELSE << >>,
               ok |-> out.res.ok, err |-> out.res.err, val |-> out.res.val]
    /\ corrected_nonce' = out.nonce
    /\ db' = out.db
    /\ env' = out.env
    /\ sent' = out.sent
    /\ aborted' = out.panic
    /\ last_selected' = NextLastSelected(op, args, out)
    /\ created' = NextCreated(op, out)
    /\ wr' = NextWr(op, args, out)
    /\ bsnap' = NextSnap(op)
    /\ pset' = NextPset(op, args)
    /\ revoked' = NextRevoked(op, args)
    /\ pwr' = NextPwr(op, args, out)
    /\ lost' = NextLost(op, args, out)
    /\ csnap' = NextCsnap(op)
    /\ UNCHANGED config

\* a creation is offered while the session has made fewer than MaxForks
CanCreate == Len(created) < MaxForks

\* ------------------------------------------------------------------ actions
CreateFork0(url_or_alias, remote_ok) ==
    /\ CanCreate /\ UNCHANGED broadcast
    /\ Commit("createFork0", << url_or_alias >>, create_fork(url_or_alias, None, remote_ok))
CreateFork1(url_or_alias, block, remote_ok) ==
    /\ CanCreate /\ UNCHANGED broadcast
    /\ Commit("createFork1", << url_or_alias, block >>,
              apply_CreateFork1(url_or_alias, block, remote_ok))
CreateFork2(url_or_alias, tx, remote_ok) ==
    /\ CanCreate /\ UNCHANGED broadcast
    /\ Commit("createFork2", << url_or_alias, tx >>,
              create_fork_at_transaction(url_or_alias, tx, remote_ok))
CreateSelectFork0(url_or_alias, remote_ok) ==
    /\ CanCreate /\ UNCHANGED broadcast
    /\ Commit("createSelectFork0", << url_or_alias >>,
              create_select_fork(url_or_alias, None, remote_ok))
CreateSelectFork1(url_or_alias, block, remote_ok) ==
    /\ CanCreate /\ UNCHANGED broadcast
    /\ Commit("createSelectFork1", << url_or_alias, block >>,
              apply_CreateSelectFork1(url_or_alias, block, remote_ok))
CreateSelectFork2(url_or_alias, tx, remote_ok) ==
    /\ CanCreate /\ UNCHANGED broadcast
    /\ Commit("createSelectFork2", << url_or_alias, tx >>,
              create_select_fork_at_transaction(url_or_alias, tx, remote_ok))
SelectFork(fork_id) ==
    /\ UNCHANGED broadcast
    /\ Commit("selectFork", << fork_id >>, select_fork(fork_id))
MakePersistent0(acc) ==
    /\ UNCHANGED broadcast
    /\ Commit("makePersistent0", << acc >>, apply_MakePersistent0(acc))
MakePersistent1(accs) ==
    /\ UNCHANGED broadcast
    /\ Commit("makePersistent1", accs, apply_MakePersistent1(accs))
MakePersistent2(acc0, acc1) ==
    /\ UNCHANGED broadcast
    /\ Commit("makePersistent2", << acc0, acc1 >>, apply_MakePersistent2(acc0, acc1))
MakePersistent3(acc0, acc1, acc2) ==
    /\ UNCHANGED broadcast
    /\ Commit("makePersistent3", << acc0, acc1, acc2 >>,
              apply_MakePersistent3(acc0, acc1, acc2))
IsPersistent(acc) ==
    /\ UNCHANGED broadcast
    /\ Commit("isPersistent", << acc >>, apply_IsPersistent(acc))
RevokePersistent0(acc) ==
    /\ UNCHANGED broadcast
    /\ Commit("revokePersistent0", << acc >>, apply_RevokePersistent0(acc))
RevokePersistent1(accs) ==
    /\ UNCHANGED broadcast
    /\ Commit("revokePersistent1", accs, apply_RevokePersistent1(accs))
ActiveFork ==
    /\ UNCHANGED broadcast
    /\ Commit("activeFork", << >>, apply_ActiveFork)
RollFork0(block, remote_ok) ==
    /\ UNCHANGED broadcast
    /\ Commit("rollFork0", << block >>, apply_RollFork0(block, remote_ok))
RollFork1(tx, remote_ok) ==
    /\ UNCHANGED broadcast
    /\ Commit("rollFork1", << tx >>, apply_RollFork1(tx, remote_ok))
RollFork2(id, block, remote_ok) ==
    /\ UNCHANGED broadcast
    /\ Commit("rollFork2", << id, block >>, apply_RollFork2(id, block, remote_ok))
RollFork3(id, tx, remote_ok) ==
    /\ UNCHANGED broadcast
    /\ Commit("rollFork3", << id, tx >>, apply_RollFork3(id, tx, remote_ok))
RpcUrl(alias) ==
    /\ UNCHANGED broadcast
    /\ Commit("rpcUrl", << alias >>, apply_RpcUrl(alias))
RpcUrls ==
    /\ UNCHANGED broadcast
    /\ Commit("rpcUrls", << >>, apply_RpcUrls)
RpcUrlStructs ==
    /\ UNCHANGED broadcast
    /\ Commit("rpcUrlStructs", << >>, apply_RpcUrlStructs)
AllowCheatcodes(addr) ==
    /\ UNCHANGED broadcast
    /\ Commit("allowCheatcodes", << addr >>, apply_AllowCheatcodes(addr))
Transact0(tx, remote_ok) ==
    /\ UNCHANGED broadcast
    /\ Commit("transact0", << tx >>, apply_Transact0(tx, remote_ok))
Transact1(id, tx, remote_ok) ==
    /\ UNCHANGED broadcast
    /\ Commit("transact1", << id, tx >>, apply_Transact1(id, tx, remote_ok))
EthGetLogs(from, to, topics, response) ==
    /\ UNCHANGED broadcast
    /\ Commit("eth_getLogs", << from, to, topics >>, eth_getlogs(from, to, topics, response))
Rpc(method, params, response) ==
    /\ UNCHANGED broadcast
    /\ Commit("rpc", << method, params >>, rpc(method, params, response))

\* the collaborators: broadcast mode, and the EVM storing and loading
StartBroadcast ==
    /\ ~broadcast
    /\ broadcast' = TRUE
    /\ Commit("startBroadcast", << >>, Same(Ok(<< >>)))
StopBroadcast ==
    /\ broadcast
    /\ broadcast' = FALSE
    /\ Commit("stopBroadcast", << >>, Same(Ok(<< >>)))
Checkpoint ==
    /\ ~IsSome(db.journal)
    /\ UNCHANGED broadcast
    /\ Commit("checkpoint", << >>, Out(Ok(<< >>), corrected_nonce, db_checkpoint(db), env))
CheckpointCommit ==
    /\ IsSome(db.journal)
    /\ UNCHANGED broadcast
    /\ Commit("commit", << >>, Out(Ok(<< >>), corrected_nonce, db_checkpoint_commit(db), env))
Revert ==
    /\ IsSome(db.journal)
    /\ UNCHANGED broadcast
    /\ Commit("revert", << >>, Out(Ok(<< >>), corrected_nonce, db_revert(db), env))
Write(a, v) ==
    /\ UNCHANGED broadcast
    /\ Commit("write", << a, v >>, Out(Ok(<< >>), corrected_nonce, db_set(db, a, v), env))
Read(a, remote_ok) ==
    /\ UNCHANGED broadcast
    /\ LET g == db_get(db, a, remote_ok) IN
       Commit("read", << a >>,
              IF g.res.ok THEN Out(Ok(<< g.res.val >>), corrected_nonce, g.db, env)
              ELSE Same(Err(g.res.err)))

\* ------------------------------------------------------------------ inputs
UrlInputs == {"main", "bad", "urlB"}
BlockInputs == {U256From(1), U256_2_64}
TxInputs == Txs \cup {0}
IdInputs == 1..(MaxForks + 1)
RollBlocks == 1..MaxBlock
AccLists == {<< a >> : a \in Addresses} \cup {<< a, b >> : a \in Addresses, b \in Addresses}
RangeInputs == {U256From(0), U256FromU64(U64_MAX), U256_2_64, U256_MAX}
TopicInputs == {[i \in 1..n |-> i] : n \in {0, MaxTopics, MaxTopics + 1}}
LogResponses ==
    {Err("transport"), Ok(<< >>), Ok(<< FullEntry >>)}
        \cup {Ok(<< FullEntry, EntryWithout(f) >>) : f \in LogFields}
RpcParams == {"[1]", "[1"}
RpcResponses == {Err("transport"), Ok("0x1"), Ok("junk")}

\* ------------------------------------------------------------------ spec
Init ==
    /\ broadcast = FALSE
    /\ corrected_nonce = FALSE
    /\ config = DefaultEndpoints
    /\ db = EmptyDb
    /\ env = LocalEnv
    /\ ret = [op |-> "init", args |-> << >>, ok |-> TRUE, err |-> "", val |-> << >>]
    /\ sent = None
    /\ aborted = FALSE
    /\ last_selected = None
    /\ created = << >>
    /\ wr = {}
    /\ bsnap = NoSnap
    /\ pset = {}
    /\ revoked = {}
    /\ pwr = [a \in Addresses |-> None]
    /\ lost = FALSE
    /\ csnap = None

Next ==
    \/ \E u \in UrlInputs, ok \in BOOLEAN : CreateFork0(u, ok)
    \/ \E u \in UrlInputs, b \in BlockInputs, ok \in BOOLEAN : CreateFork1(u, b, ok)
    \/ \E u \in UrlInputs, t \in TxInputs, ok \in BOOLEAN : CreateFork2(u, t, ok)
    \/ \E u \in UrlInputs, ok \in BOOLEAN : CreateSelectFork0(u, ok)
    \/ \E u \in UrlInputs, b \in BlockInputs, ok \in BOOLEAN : CreateSelectFork1(u, b, ok)
    \/ \E u \in UrlInputs, t \in TxInputs, ok \in BOOLEAN : CreateSelectFork2(u, t, ok)
    \/ \E id \in IdInputs : SelectFork(id)
    \/ \E a \in Addresses : MakePersistent0(a)
    \/ \E l \in AccLists : MakePersistent1(l)
    \/ \E a \in Addresses, b \in Addresses : MakePersistent2(a, b)
    \/ \E a \in Addresses, b \in Addresses, c \in Addresses : MakePersistent3(a, b, c)
    \/ \E a \in Addresses : IsPersistent(a)
    \/ \E a \in Addresses : RevokePersistent0(a)
    \/ \E l \in AccLists : RevokePersistent1(l)
    \/ ActiveFork
    \/ \E b \in RollBlocks, ok \in BOOLEAN : RollFork0(b, ok)
    \/ \E t \in TxInputs, ok \in BOOLEAN : RollFork1(t, ok)
    \/ \E id \in IdInputs, b \in RollBlocks, ok \in BOOLEAN : RollFork2(id, b, ok)
    \/ \E id \in IdInputs, t \in TxInputs, ok \in BOOLEAN : RollFork3(id, t, ok)
    \/ \E u \in UrlInputs : RpcUrl(u)
    \/ RpcUrls
    \/ RpcUrlStructs
    \/ \E a \in Addresses : AllowCheatcodes(a)
    \/ \E t \in TxInputs, ok \in BOOLEAN : Transact0(t, ok)
    \/ \E id \in IdInputs, t \in TxInputs, ok \in BOOLEAN : Transact1(id, t, ok)
    \/ \E f \in RangeInputs, t \in RangeInputs, ts \in TopicInputs, r \in LogResponses :
           EthGetLogs(f, t, ts, r)
    \/ \E p \in RpcParams, r \in RpcResponses : Rpc("eth_chainId", p, r)
    \/ StartBroadcast
    \/ StopBroadcast
    \/ \E a \in Addresses, v \in WriteVals : Write(a, v)
    \/ \E a \in Addresses, ok \in BOOLEAN : Read(a, ok)
    \/ Checkpoint
    \/ CheckpointCommit
    \/ Revert

Spec == Init /\ [][Next]_vars

\* The registry on its own: creating, selecting and re-anchoring forks,
\* replaying transactions, and broadcast mode.
RegUrls == {"main", "bad"}
RegTxs == {0, 2}

NextRegistry ==
    \/ \E u \in RegUrls, ok \in BOOLEAN : CreateFork0(u, ok)
    \/ \E u \in RegUrls, b \in BlockInputs : CreateFork1(u, b, TRUE)
    \/ \E u \in RegUrls, t \in RegTxs : CreateFork2(u, t, TRUE)
    \/ \E u \in RegUrls, ok \in BOOLEAN : CreateSelectFork0(u, ok)
    \/ \E u \in RegUrls, b \in BlockInputs : CreateSelectFork1(u, b, TRUE)
    \/ \E u \in RegUrls, t \in RegTxs, ok \in BOOLEAN : CreateSelectFork2(u, t, ok)
    \/ \E id \in IdInputs : SelectFork(id)
    \/ ActiveFork
    \/ \E b \in RollBlocks, ok \in BOOLEAN : RollFork0(b, ok)
    \/ \E t \in RegTxs : RollFork1(t, TRUE)
    \/ \E id \in IdInputs, b \in RollBlocks : RollFork2(id, b, TRUE)
    \/ \E id \in IdInputs, t \in RegTxs : RollFork3(id, t, TRUE)
    \/ \E t \in RegTxs : Transact0(t, TRUE)
    \/ \E id \in IdInputs, t \in RegTxs : Transact1(id, t, TRUE)
    \/ StartBroadcast
    \/ StopBroadcast

SpecRegistry == Init /\ [][NextRegistry]_vars

\* The persistent set: reads and writes through the layers of forks while
\* addresses enter and leave the set.
NextPersist ==
    \/ CreateSelectFork0("main", TRUE)
    \/ \E id \in IdInputs : SelectFork(id)
    \/ \E a \in Addresses : Write(a, 7)
    \/ \E a \in Addresses : Read(a, TRUE)
    \/ \E a \in Addresses : MakePersistent0(a)
    \/ \E l \in AccLists : MakePersistent1(l)
    \/ \E a \in Addresses, b \in Addresses : MakePersistent2(a, b)
    \/ \E a \in Addresses, b \in Addresses, c \in Addresses : MakePersistent3(a, b, c)
    \/ \E a \in Addresses : IsPersistent(a)
    \/ \E a \in Addresses : RevokePersistent0(a)
    \/ \E l \in AccLists : RevokePersistent1(l)

SpecPersist == Init /\ [][NextPersist]_vars

\* Promotion and the persistent set: the calls that change the set, in all
\* their shapes, with writes on the forks and on the local state.
NextPromote ==
    \/ CreateSelectFork0("main", TRUE)
    \/ \E id \in IdInputs : SelectFork(id)
    \/ \E a \in Addresses : Write(a, 7)
    \/ \E a \in Addresses : MakePersistent0(a)
    \/ \E l \in AccLists : MakePersistent1(l)
    \/ \E a \in Addresses, b \in Addresses : MakePersistent2(a, b)
    \/ \E a \in Addresses, b \in Addresses, c \in Addresses : MakePersistent3(a, b, c)
    \/ \E a \in Addresses : RevokePersistent0(a)
    \/ \E l \in AccLists : RevokePersistent1(l)

SpecPromote == Init /\ [][NextPromote]_vars

\* Re-anchoring: reads and writes through the layers of forks that are
\* rolled to other blocks and to a transaction.
NextRoll ==
    \/ CreateSelectFork0("main", TRUE)
    \/ \E id \in IdInputs : SelectFork(id)
    \/ \E a \in Addresses : Write(a, 7)
    \/ \E a \in Addresses : Read(a, TRUE)
    \/ MakePersistent0(1)
    \/ \E b \in RollBlocks : RollFork0(b, TRUE)
    \/ \E id \in IdInputs, b \in RollBlocks : RollFork2(id, b, TRUE)
    \/ \E id \in IdInputs : RollFork3(id, 2, TRUE)

SpecRoll == Init /\ [][NextRoll]_vars

\* Remote queries: forks of two endpoints are created and selected, inside
\* and outside broadcast mode, and the endpoint of the active fork is asked
\* for logs and called with a JSON-RPC method.
LogUrls == {"main", "urlB"}

NextLogs ==
    \/ \E u \in LogUrls : CreateFork0(u, TRUE)
    \/ \E u \in LogUrls : CreateSelectFork0(u, TRUE)
    \/ \E id \in IdInputs : SelectFork(id)
    \/ \E f \in RangeInputs, t \in RangeInputs, ts \in TopicInputs, r \in LogResponses :
           EthGetLogs(f, t, ts, r)
    \/ \E p \in RpcParams, r \in RpcResponses : Rpc("eth_chainId", p, r)
    \/ StartBroadcast
    \/ StopBroadcast

SpecLogs == Init /\ [][NextLogs]_vars

\* The endpoint asked: forks of two endpoints are created, selected and
\* rolled, and well-formed queries are made in between.
NextRemote ==
    \/ \E u \in LogUrls : CreateFork0(u, TRUE)
    \/ \E u \in LogUrls : CreateSelectFork0(u, TRUE)
    \/ \E id \in IdInputs : SelectFork(id)
    \/ \E b \in RollBlocks : RollFork0(b, TRUE)
    \/ \E id \in IdInputs, b \in RollBlocks : RollFork2(id, b, TRUE)
    \/ \E r \in {Err("transport"), Ok(<< FullEntry >>)} :
           EthGetLogs(U256From(0), U256From(1), << >>, r)
    \/ \E r \in RpcResponses : Rpc("eth_chainId", "[1]", r)

SpecRemote == Init /\ [][NextRemote]_vars

\* Checkpoints: writes to address 1 once it is persistent and to the
\* non-persistent address 2 under the forks, 7 outside and 8 inside a
\* checkpoint that is committed or reverted.
NextJournal ==
    \/ CreateSelectFork0("main", TRUE)
    \/ \E id \in IdInputs : SelectFork(id)
    \/ is_persistent(db, 1) /\ Write(1, IF IsSome(db.journal) THEN 8 ELSE 7)
    \/ Write(2, IF IsSome(db.journal) THEN 8 ELSE 7)
    \/ MakePersistent0(1)
    \/ Checkpoint
    \/ CheckpointCommit
    \/ Revert

SpecJournal == Init /\ [][NextJournal]_vars

\* Endpoint listings: the session starts with any of the configurations
\* drawn from three endpoints, keys in order, one of which does not resolve;
\* the listings are asked for while forks are created and selected.
AllEndpoints ==
    << [alias |-> "alt", url |-> Some("urlB")],
       [alias |-> "bad", url |-> None],
       [alias |-> "main", url |-> Some("urlA")] >>
RECURSIVE Pick(_, _)
Pick(keep, i) ==
    IF i > Len(AllEndpoints) THEN << >>
    ELSE IF i \in keep THEN << AllEndpoints[i] >> \o Pick(keep, i + 1)
    ELSE Pick(keep, i + 1)
Configs == {Pick(keep, 1) : keep \in SUBSET (1..Len(AllEndpoints))}

InitUrls ==
    /\ broadcast = FALSE
    /\ corrected_nonce = FALSE
    /\ config \in Configs
    /\ db = EmptyDb
    /\ env = LocalEnv
    /\ ret = [op |-> "init", args |-> << >>, ok |-> TRUE, err |-> "", val |-> << >>]
    /\ sent = None
    /\ aborted = FALSE
    /\ last_selected = None
    /\ created = << >>
    /\ wr = {}
    /\ bsnap = NoSnap
    /\ pset = {}
    /\ revoked = {}
    /\ pwr = [a \in Addresses |-> None]
    /\ lost = FALSE
    /\ csnap = None

NextUrls ==
    \/ \E u \in {"alt", "main", "bad", "urlB"} : CreateSelectFork0(u, TRUE)
    \/ \E id \in IdInputs : SelectFork(id)
    \/ \E u \in {"alt", "main", "bad", "urlB", "none"} : RpcUrl(u)
    \/ RpcUrls
    \/ RpcUrlStructs
    \/ \E a \in Addresses : AllowCheatcodes(a)
    \/ StartBroadcast
    \/ StopBroadcast

SpecUrls == InitUrls /\ [][NextUrls]_vars

\* ------------------------------------------------------------------ claims
\* C1: while broadcast mode is active, selectFork, createSelectFork (with or
\* without a block) and createSelectForkAtTransaction fail with
\* SelectForkDuringBroadcast and change nothing: the backend (active fork,
\* forks, next id), the shared environment and corrected_nonce are as before.
C1_SelectDuringBroadcastFails ==
    [][(broadcast /\ ret'.op \in SelectOps) =>
          /\ ~ret'.ok
          /\ ret'.err = "SelectForkDuringBroadcast"
          /\ db' = db
          /\ env' = env
          /\ corrected_nonce' = corrected_nonce]_vars

\* C2 as stated: during broadcast the active fork, its anchor and the shared
\* execution environment are the same as when broadcast began.
C2_ContextFixedDuringBroadcast ==
    broadcast =>
        /\ db.active = bsnap.active
        /\ ActiveAnchor(db) = bsnap.anchor
        /\ env = bsnap.env

\* C2 as amended: during broadcast the active fork pointer and the chain of
\* the shared execution environment are the same as when broadcast began
\* (rollFork may still re-anchor the active fork).
C2_ActiveForkFixedDuringBroadcast ==
    broadcast =>
        /\ db.active = bsnap.active
        /\ env.chain = bsnap.env.chain

C2_Witness ==
    /\ broadcast
    /\ ret.op \in RollOps
    /\ ret.ok
    /\ IsSome(db.active)
    /\ db.active = bsnap.active
    /\ ActiveAnchor(db) # bsnap.anchor

\* C3: the active fork is the fork of the most recent successful selectFork
\* or createSelectFork*, none before the first one; activeFork returns that
\* id, and fails with NoActiveFork exactly when no selection has succeeded.
C3_ActiveForkIsLastSelected ==
    /\ db.active = last_selected
    /\ ret.op = "activeFork" =>
          IF IsSome(last_selected)
          THEN ret.ok /\ ret.val = EncodeUint(Unwrap(last_selected))
          ELSE ~ret.ok /\ ret.err = "NoActiveFork"

C3_Witness ==
    /\ ret.op = "activeFork"
    /\ ret.ok
    /\ ret.val = EncodeUint(1)
    /\ created = << 1, 2 >>
    /\ corrected_nonce

\* C4: createSelectFork* is atomic: a call that succeeds leaves exactly one
\* new fork, which is the active one; a call that fails (broadcast, alias,
\* backend) leaves the forks and the active fork as they were.
C4_CreateSelectAtomic ==
    [][ret'.op \in CreateSelectOps =>
          IF ret'.ok
          THEN /\ ret'.val[1] \notin DOMAIN db.forks
               /\ DOMAIN db'.forks = DOMAIN db.forks \cup {ret'.val[1]}
               /\ db'.active = Some(ret'.val[1])
          ELSE /\ db'.forks = db.forks
               /\ db'.next_id = db.next_id
               /\ db'.active = db.active]_vars

C4_Witness ==
    /\ ret.op = "createSelectFork0"
    /\ ~ret.ok
    /\ ret.err = "RemoteRpcError"
    /\ db.active = Some(1)
    /\ DOMAIN db.forks = {1}

\* C8: the ids returned by successful creations are strictly increasing in
\* creation order (so no id is returned twice), and they are exactly the ids
\* of the forks that exist: re-anchoring adds or changes none.
C8_ForkIdsStrictlyIncreasing ==
    /\ \A i \in 1..Len(created) : \A j \in 1..Len(created) :
           i < j => created[i] < created[j]
    /\ DOMAIN db.forks = {created[i] : i \in 1..Len(created)}

C8_Witness ==
    /\ ret.op = "rollFork2"
    /\ ret.ok
    /\ Len(created) = 2
    /\ created[1] # created[2]
    /\ db.forks[created[1]].url = db.forks[created[2]].url
    /\ db.forks[created[1]].anchor = db.forks[created[2]].anchor

\* the layers: 0 is the local layer, the others are the forks
LayerKeys == {0} \cup DOMAIN db.forks
\* what layer k answers for address a when a is not persistent
LayerValue(k, a) == IF k = 0 THEN LocalValue(db, a) ELSE ForkValue(db.forks[k], a)

\* C5: for every address P in the persistent set: P has no entry in any
\* fork-local layer, and the value last written to P, under whichever fork,
\* is the value P has and the value a read returns under every fork.
C5_PersistentSharedAcrossForks ==
    \A P \in pset :
        /\ is_persistent(db, P)
        /\ \A k \in DOMAIN db.forks : db.forks[k].overrides[P] = None
        /\ db.local[P] = None
        /\ IsSome(pwr[P]) =>
              /\ ActiveValue(db, P) = Unwrap(pwr[P])[1]
              /\ (ret.op = "read" /\ ret.args[1] = P) =>
                    ret.ok /\ ret.val = << Unwrap(pwr[P])[1] >>

C5_Witness ==
    /\ ret.op = "read"
    /\ ret.args[1] \in pset
    /\ IsSome(pwr[ret.args[1]])
    /\ ret.val = << 7 >>
    /\ IsSome(last_selected)
    /\ Unwrap(pwr[ret.args[1]])[2] \notin {0, Unwrap(last_selected)}

\* C6: for every address Q that is not persistent, every layer answers with
\* its own last write to Q, or on a miss with the remote value at its own
\* anchor, whatever was written under other forks and whichever fork is
\* active; a read returns the answer of the active layer.
C6_WritesStayOnTheirFork ==
    \A Q \in Addresses \ pset :
        /\ \A k \in LayerKeys : LayerValue(k, Q) = Expected(k, Q)
        /\ (ret.op = "read" /\ ret.ok /\ ret.args[1] = Q) =>
              ret.val = << Expected(Key(last_selected), Q) >>

C6_Witness ==
    /\ ret.op = "read"
    /\ ret.ok
    /\ ret.args[1] \notin pset
    /\ IsSome(last_selected)
    /\ ret.val # << 7 >>
    /\ \E k \in DOMAIN db.forks :
           k # Unwrap(last_selected) /\ WrGet(k, ret.args[1]) = Some(7)

\* the anchor block and the starting layer a roll call asks for
RollBlock(op, args) ==
    IF op \in {"rollFork0", "rollFork2"} THEN args[Len(args)] ELSE TxBlock - 1
RollLayer(op, args, u) ==
    IF op \in {"rollFork0", "rollFork2"} THEN NoOverrides
    ELSE ReplayOverrides(u, args[Len(args)])

\* C7: a successful rollFork keeps the fork's id and endpoint and every other
\* fork, keeps the persistent set and the values of persistent addresses,
\* and leaves the fork at the new anchor with none of its earlier writes to
\* non-persistent addresses: they read as the remote values at the new anchor.
C7_RollForkReanchorsInPlace ==
    [][(ret'.op \in RollOps /\ ret'.ok) =>
          LET t == Key(OpTarget(ret'.op, ret'.args)) IN
          /\ t \in DOMAIN db.forks
          /\ DOMAIN db'.forks = DOMAIN db.forks
          /\ db'.forks[t].url = db.forks[t].url
          /\ \A f \in DOMAIN db.forks \ {t} : db'.forks[f] = db.forks[f]
          /\ db'.active = db.active
          /\ db'.persistent = db.persistent
          /\ db'.shared = db.shared
          /\ db'.forks[t].anchor.block = RollBlock(ret'.op, ret'.args)
          /\ \A Q \in Addresses \ db.persistent :
                /\ db'.forks[t].overrides[Q] =
                       RollLayer(ret'.op, ret'.args, db.forks[t].url)[Q]
                /\ ret'.op \in {"rollFork0", "rollFork2"} =>
                       ForkValue(db'.forks[t], Q) =
                           Remote(db.forks[t].url, RollBlock(ret'.op, ret'.args), Q)]_vars

C7_Witness ==
    /\ ret.op = "rollFork2"
    /\ ret.ok
    /\ lost
    /\ 1 \in pset
    /\ pwr[1] # None
    /\ db.shared[1] = 7
    /\ db.active # Some(ret.args[1])

\* C9: an address that was revoked and not made persistent again is not in
\* the persistent set, isPersistent returns false for it, and it behaves as
\* a non-persistent address: each layer answers with its own last write or
\* its own remote value, so a write under one fork is not seen under another.
C9_RevokedIsNotPersistent ==
    /\ \A P \in Addresses \ pset : ~is_persistent(db, P)
    /\ \A P \in revoked :
        /\ P \notin pset
        /\ (ret.op = "isPersistent" /\ ret.args[1] = P) => ret.val = EncodeBool(FALSE)
        /\ \A k \in LayerKeys : LayerValue(k, P) = Expected(k, P)
        /\ (ret.op = "read" /\ ret.ok /\ ret.args[1] = P) =>
              ret.val = << Expected(Key(last_selected), P) >>

C9_Witness ==
    /\ ret.op = "read"
    /\ ret.ok
    /\ ret.args[1] \in revoked
    /\ IsSome(last_selected)
    /\ ret.val # << 7 >>
    /\ \E k \in DOMAIN db.forks :
           k # Unwrap(last_selected) /\ WrGet(k, ret.args[1]) = Some(7)

\* the block and topic arguments of the eth_getLogs call that ret holds
LogsBig(x) == ~FitsWord(x)
LogsRangeBig == LogsBig(ret.args[1]) \/ LogsBig(ret.args[2])
LogsTopics == Len(ret.args[3])

\* C10 as stated: in every session state, eth_getLogs with more than 4
\* topics fails with TooManyTopics and with a fromBlock or toBlock above
\* 2^64-1 fails with RangeTooLarge, whatever the provider would answer; with
\* bounds of at most 2^64-1 and at most 4 topics the filter is accepted and
\* the request goes out.
C10_LogsErrorsInEveryState ==
    ret.op = "eth_getLogs" =>
        /\ LogsTopics > 4 => (~ret.ok /\ ret.err = "TooManyTopics")
        /\ LogsRangeBig => (~ret.ok /\ ret.err = "RangeTooLarge")
        /\ (~LogsRangeBig /\ LogsTopics <= 4) => IsSome(sent)

\* C10: eth_getLogs checks in this order, whatever the provider would
\* answer: without an active fork it fails with NoActiveFork; with a
\* fromBlock or toBlock above 2^64-1 it fails with RangeTooLarge; with more
\* than 4 topics it fails with TooManyTopics; none of the three sends a
\* request.  With an active fork, bounds of at most 2^64-1 and at most 4
\* topics the filter is accepted: the request goes to the active fork's url.
C10_LogsChecksInOrder ==
    ret.op = "eth_getLogs" =>
        IF ~IsSome(db.active)
        THEN ~ret.ok /\ ret.err = "NoActiveFork" /\ sent = None
        ELSE IF LogsRangeBig
        THEN ~ret.ok /\ ret.err = "RangeTooLarge" /\ sent = None
        ELSE IF LogsTopics > 4
        THEN ~ret.ok /\ ret.err = "TooManyTopics" /\ sent = None
        ELSE /\ sent = Some(db.forks[Unwrap(db.active)].url)
             /\ ret.err \notin {"NoActiveFork", "RangeTooLarge", "TooManyTopics"}

C10_Witness ==
    /\ ret.op = "eth_getLogs"
    /\ IsSome(db.active)
    /\ ret.args[1] = U256From(0)
    /\ ret.args[2] = U256FromU64(U64_MAX)
    /\ LogsTopics = 4
    /\ ret.ok
    /\ ret.val # << >>
    /\ sent = Some("urlB")

\* C11: no call of a fork operation aborts the process: every failure comes
\* back as an error result.  In particular eth_getLogs answered with an
\* entry that lacks block number, transaction hash, transaction index, block
\* hash, log index or the removal flag returns an error value.
C11_FailuresAreErrorResults ==
    /\ ~aborted
    /\ ret.err # "panic"

\* C12: createFork (with or without a block) and createForkAtTransaction
\* with an alias or url that does not resolve fail with ConfigError and the
\* backend is as before: no id is allocated, the forks, the active fork and
\* the shared environment are unchanged, so the next creation gets the id
\* it would have got.
C12_UnresolvedAliasFailsBeforeBackend ==
    [][(ret'.op \in {"createFork0", "createFork1", "createFork2"}
            /\ ~get_rpc_url(config, ret'.args[1]).ok) =>
          /\ ~ret'.ok
          /\ ret'.err = "ConfigError"
          /\ ~aborted'
          /\ db' = db
          /\ env' = env]_vars

\* the ids handed out so far
Allocated == {created[i] : i \in 1..Len(created)}

\* C13 as stated: selectFork(id) with an id that was never allocated fails
\* with UnknownForkId and leaves the active fork and the shared environment
\* unchanged; with an existing id outside broadcast mode it makes id active
\* and sets the shared environment to that fork's stored environment.
C13_SelectForkUnknownOrKnown ==
    [][ret'.op = "selectFork" =>
          LET id == ret'.args[1] IN
          /\ id \notin Allocated =>
                /\ ~ret'.ok /\ ret'.err = "UnknownForkId"
                /\ db'.active = db.active /\ env' = env
          /\ (id \in Allocated /\ ~broadcast) =>
                /\ ret'.ok
                /\ db'.active = Some(id) /\ env' = db.forks[id].env]_vars

\* C13: outside broadcast mode, selectFork(id) with an id that was never
\* allocated fails with UnknownForkId and leaves the active fork and the
\* shared environment unchanged, and with an existing id it makes id active
\* and sets the shared environment to that fork's stored environment; in
\* broadcast mode it fails with SelectForkDuringBroadcast for every id,
\* allocated or not, and changes neither.
C13_SelectForkOutsideBroadcast ==
    [][ret'.op = "selectFork" =>
          LET id == ret'.args[1] IN
          IF broadcast
          THEN /\ ~ret'.ok /\ ret'.err = "SelectForkDuringBroadcast"
               /\ db'.active = db.active /\ env' = env
          ELSE IF id \notin Allocated
          THEN /\ ~ret'.ok /\ ret'.err = "UnknownForkId"
               /\ db'.active = db.active /\ env' = env
          ELSE /\ ret'.ok
               /\ db'.active = Some(id) /\ env' = db.forks[id].env]_vars

C13_Witness ==
    /\ ret.op = "selectFork"
    /\ ret.ok
    /\ ~broadcast
    /\ db.active = Some(ret.args[1])
    /\ env = db.forks[ret.args[1]].env
    /\ \E f \in DOMAIN db.forks : db.forks[f].env # env

\* what a read of address a returns in backend d when layer k is active
ReadsAs(d, k, a) == ActiveValue([d EXCEPT !.active = IF k = 0 THEN None ELSE Some(k)], a)

\* C14: when addresses are made persistent, the value each of them has on
\* the fork active at the call becomes its shared value: right after the
\* call every fork reads that value for it, whatever the fork held before;
\* and while an address stays persistent, a call that does not write to it
\* leaves the value every fork reads for it as it was.
C14_PromotionTakesActiveValue ==
    [][/\ \A P \in pset' \ pset : \A k \in {0} \cup DOMAIN db'.forks :
             ReadsAs(db', k, P) = Expected(Key(last_selected), P)
       /\ \A P \in pset' \cap pset :
             (pwr'[P] = pwr[P]) =>
                 \A k \in {0} \cup DOMAIN db.forks :
                     ReadsAs(db', k, P) = ReadsAs(db, Key(last_selected), P)]_vars

C14_Witness ==
    /\ ret.op \in MakePersistentOps
    /\ lost
    /\ IsSome(last_selected)
    /\ Cardinality(DOMAIN db.forks) >= 2
    /\ \E P \in pset :
          /\ pwr[P] = None
          /\ \A k \in DOMAIN db.forks : ReadsAs(db, k, P) = 7

\* C15: after a revert, every address persistent since the checkpoint reads
\* on every fork as it did at the checkpoint, and when the fork active at
\* the checkpoint is the active one again, every address that is persistent
\* since the checkpoint or non-persistent since the checkpoint reads on it
\* as it did at the checkpoint.
C15_RevertUndoesWrites ==
    (ret.op = "revert" /\ IsSome(csnap)) =>
        LET c == Unwrap(csnap) IN
        /\ \A P \in c.pset \cap pset : \A k \in LayerKeys :
               ReadsAs(db, k, P) = c.reads[P]
        /\ Key(last_selected) = c.active =>
               \A Q \in Addresses \ (pset \ c.pset) :
                   ReadsAs(db, c.active, Q) = c.reads[Q]

C15_Witness ==
    /\ ret.op = "revert"
    /\ IsSome(csnap)
    /\ lost
    /\ Unwrap(csnap).active # 0
    /\ Key(last_selected) = Unwrap(csnap).active
    /\ 1 \in Unwrap(csnap).pset
    /\ Unwrap(csnap).reads[1] = 7
    /\ Unwrap(csnap).reads[2] = 7
    /\ \E k \in DOMAIN db.forks : k # Unwrap(csnap).active /\ ReadsAs(db, k, 2) = 8

\* C16: a request has been sent only by an eth_getLogs or rpc call made
\* with a fork active whose local checks all passed (both block bounds at
\* most 2^64-1 and at most 4 topics; params that parse as JSON); a call
\* that fails one of its checks returns an error and has sent nothing.
C16_NoRequestBeforeChecks ==
    LET logs_pass == ~LogsRangeBig /\ LogsTopics <= MaxTopics
        rpc_pass == ParsesAsJson(ret.args[2])
    IN  /\ IsSome(sent) =>
              /\ ret.op \in {"eth_getLogs", "rpc"}
              /\ IsSome(last_selected)
              /\ ret.op = "eth_getLogs" => logs_pass
              /\ ret.op = "rpc" => rpc_pass
        /\ (ret.op = "eth_getLogs" /\ (~IsSome(last_selected) \/ ~logs_pass)) =>
              ~ret.ok /\ sent = None
        /\ (ret.op = "rpc" /\ (~IsSome(last_selected) \/ ~rpc_pass)) =>
              ~ret.ok /\ sent = None

C16_Witness ==
    /\ ret.op = "rpc"
    /\ IsSome(last_selected)
    /\ ~ParsesAsJson(ret.args[2])
    /\ ret.err = "SerializationError"
    /\ sent = None

\* C17: a request of rpc or eth_getLogs goes to the endpoint of the fork
\* selected last, whatever forks were created, selected and rolled before,
\* and to no other; while no fork is active both fail with NoActiveFork and
\* send nothing.
C17_RequestsGoToActiveFork ==
    ret.op \in {"eth_getLogs", "rpc"} =>
        /\ IsSome(sent) =>
              /\ IsSome(last_selected)
              /\ sent = Some(db.forks[Unwrap(last_selected)].url)
        /\ ~IsSome(last_selected) =>
              ~ret.ok /\ ret.err = "NoActiveFork" /\ sent = None

C17_Witness ==
    /\ ret.op = "rpc"
    /\ ret.ok
    /\ last_selected = Some(2)
    /\ sent = Some("urlB")
    /\ db.forks[1].url = "urlA"
    /\ db.forks[2].anchor.block # MaxBlock

\* the persistent set a call leaves
SetAfter(out) == out.db.persistent

\* C18: the persistent set is the set of the addresses added and not
\* revoked since, whatever the shapes of the calls: in every state the
\* two-address and three-address calls would leave the set that the list
\* call with the same addresses leaves, which is the set with these
\* addresses added; the order of the addresses does not matter, adding an
\* address of the set or revoking an address outside the set changes
\* nothing, and isPersistent leaves the set as it is.
C18_PersistentSetSemantics ==
    /\ db.persistent = pset
    /\ \A a \in Addresses, b \in Addresses, c \in Addresses :
          /\ SetAfter(apply_MakePersistent0(a)) = db.persistent \cup {a}
          /\ SetAfter(apply_MakePersistent2(a, b)) = db.persistent \cup {a, b}
          /\ SetAfter(apply_MakePersistent2(a, b)) = SetAfter(apply_MakePersistent1(<< a, b >>))
          /\ SetAfter(apply_MakePersistent2(a, b)) = SetAfter(apply_MakePersistent2(b, a))
          /\ SetAfter(apply_MakePersistent3(a, b, c)) = db.persistent \cup {a, b, c}
          /\ SetAfter(apply_MakePersistent3(a, b, c)) =
                 SetAfter(apply_MakePersistent1(<< c, b, a >>))
          /\ a \in db.persistent => SetAfter(apply_MakePersistent0(a)) = db.persistent
          /\ a \notin db.persistent =>
                 /\ SetAfter(apply_RevokePersistent0(a)) = db.persistent
                 /\ SetAfter(apply_RevokePersistent1(<< a >>)) = db.persistent
          /\ SetAfter(apply_RevokePersistent1(<< a, b >>)) = db.persistent \ {a, b}
          /\ SetAfter(apply_IsPersistent(a)) = db.persistent

C18_Witness ==
    /\ ret.op = "makePersistent2"
    /\ ret.ok
    /\ db.persistent = {1, 2}
    /\ DOMAIN db.forks # {}

\* the block number the environment shows after a roll call
RollNumber(op, args) ==
    IF op \in {"rollFork0", "rollFork2"} THEN args[Len(args)] ELSE TxBlock

\* C19: createFork (with or without a block), createForkAtTransaction and
\* a rollFork aimed at a fork other than the one selected last leave the
\* active fork and the shared environment as they were; a successful
\* rollFork without an id re-anchors the fork selected last and leaves the
\* shared environment equal to that fork's environment at the new anchor;
\* among these calls only a successful rollFork aimed at the fork selected
\* last changes the shared environment, and none changes the active fork.
C19_OnlyActiveRollRefreshesEnv ==
    [][LET op == ret'.op
           creates == {"createFork0", "createFork1", "createFork2"}
           aimed == OpTarget(op, ret'.args)
       IN  /\ op \in creates => db'.active = db.active /\ env' = env
           /\ (op \in {"rollFork2", "rollFork3"} /\ aimed # last_selected) =>
                 db'.active = db.active /\ env' = env
           /\ (op \in {"rollFork0", "rollFork1"} /\ ret'.ok) =>
                 /\ IsSome(last_selected)
                 /\ db'.active = last_selected
                 /\ db'.forks[Unwrap(last_selected)].anchor.block = RollBlock(op, ret'.args)
                 /\ env' = db'.forks[Unwrap(last_selected)].env
                 /\ env'.number = RollNumber(op, ret'.args)
                 /\ env'.chain = env.chain
           /\ op \in RollOps =>
                 /\ db'.active = db.active
                 /\ env' # env => ret'.ok /\ aimed = last_selected]_vars

C19_Witness ==
    /\ ret.op = "rollFork0"
    /\ ret.ok
    /\ IsSome(last_selected)
    /\ env = db.forks[Unwrap(last_selected)].env
    /\ env.number = ret.args[1]
    /\ env.number # MaxBlock
    /\ \E f \in DOMAIN db.forks : f # Unwrap(last_selected) /\ db.forks[f].env # env

\* the pairs of a listing
PairsOf(val) == [i \in 1..Len(val) |-> val[i].items]
\* the pairs the configuration holds when every alias has a url
ConfigPairs == [i \in 1..Len(config) |-> << config[i].alias, Unwrap(config[i].url) >>]
AllResolve == \A i \in 1..Len(config) : IsSome(config[i].url)

\* C20: in every state, if every configured alias resolves, rpcUrls and
\* rpcUrlStructs each return one (alias, url) pair per configured alias, the
\* same pairs in the configuration's order; if an alias does not resolve,
\* each returns the resolution error and no list; neither changes the
\* session state or sends a request; and what a call returned is what is
\* stated here.
C20_UrlListingsAgree ==
    LET a == apply_RpcUrls
        b == apply_RpcUrlStructs
        untouched(o) == /\ o.db = db /\ o.env = env /\ o.nonce = corrected_nonce
                        /\ o.sent = None /\ ~o.panic
    IN  /\ untouched(a) /\ untouched(b)
        /\ AllResolve =>
              /\ a.res.ok /\ b.res.ok
              /\ PairsOf(a.res.val) = ConfigPairs
              /\ PairsOf(b.res.val) = PairsOf(a.res.val)
        /\ ~AllResolve =>
              /\ ~a.res.ok /\ ~b.res.ok
              /\ a.res.err = "ConfigError" /\ b.res.err = a.res.err
              /\ a.res.val = << >> /\ b.res.val = << >>
        /\ ret.op = "rpcUrls" =>
              ret.ok = a.res.ok /\ ret.err = a.res.err /\ ret.val = a.res.val
        /\ ret.op = "rpcUrlStructs" =>
              ret.ok = b.res.ok /\ ret.err = b.res.err /\ ret.val = b.res.val

C20_Witness ==
    /\ ret.op = "rpcUrlStructs"
    /\ ret.ok
    /\ PairsOf(ret.val) = << << "alt", "urlB" >>, << "main", "urlA" >> >>
    /\ IsSome(db.active)

====
